---- MODULE Spec2Model ----
(***************************************************************************)
(* Terminal Conway's Game of Life (lea-151107/life-game).                  *)
(*                                                                         *)
(* The model covers the interactive session loop run() of life_game.py     *)
(* (mode flags, board, generation counter, stagnation history, statistics) *)
(* and the pure helpers next_generation and is_cyclical in both of their   *)
(* copies (life_game.py and core.py).                                      *)
(*                                                                         *)
(* Boards are functions [0..rows-1 -> [0..cols-1 -> BOOLEAN]], indexed     *)
(* from 0 as in the source.  Python lists are sequences, so seq[i] of the  *)
(* source is seq[i+1] here.                                                *)
(***************************************************************************)
EXTENDS Integers, Sequences, FiniteSets, TLC

VARIABLES
    \* ---- arguments of run(), fixed for a session ----
    rows, cols, density, endless, keep_alive, stagnate_limit, header_items,
    \* ---- locals of run() ----
    game_no, max_generation, board, generation, history,
    paused, edit_mode, pattern_selection_mode, placement_mode,
    cursor_y, cursor_x,
    selected_pattern_index, pattern_scroll_offset, search_mode, search_query,
    pattern_rotation, pattern_flip,
    stagnated, processed_input,
    \* ---- position in the loop of run() and how the last evaluation ended ----
    pc, verdict,
    \* ---- advances made since History was last emptied (observer) ----
    fresh_advances,
    \* ---- harness for the pure functions: argument and result ----
    probe

cfg_vars == <<rows, cols, density, endless, keep_alive, stagnate_limit, header_items>>

ui_vars == <<cursor_y, cursor_x, selected_pattern_index, pattern_scroll_offset,
             search_mode, search_query, pattern_rotation, pattern_flip>>

mode_vars == <<paused, edit_mode, pattern_selection_mode, placement_mode>>

vars == <<rows, cols, density, endless, keep_alive, stagnate_limit, header_items,
          game_no, max_generation, board, generation, history,
          paused, edit_mode, pattern_selection_mode, placement_mode,
          cursor_y, cursor_x,
          selected_pattern_index, pattern_scroll_offset, search_mode, search_query,
          pattern_rotation, pattern_flip,
          stagnated, processed_input, pc, verdict, fresh_advances, probe>>

(***************************************************************************)
(* Bounds of the model.                                                    *)
(***************************************************************************)
\* generations a game is followed for
MaxGen == 6
\* games (restarts + 1) a session is followed for
MaxGames == 2
\* the session's board has at most this many cells (rows * cols)
MaxCells == 4
\* most cells (rows * cols) of a board given to next_generation on its own
MaxArea == 9
\* longest sequence, and largest value, given to is_cyclical on its own
MaxSeqLen == 6
MaxVal == 5
\* longest search query typed
MaxQuery == 2
\* patterns handed to the geometry functions: at most MaxPatLen offsets,
\* each coordinate in 0 .. MaxOffset
MaxPatLen == 3
MaxOffset == 2
\* longest chain of quarter turns and of flips applied to one pattern
MaxTurns == 4
MaxFlips == 2
\* most characters (bytes) waiting on the terminal when get_key is called
MaxBuffer == 3
\* glider runs: boards of GliderSide .. MaxGliderSide rows and columns, run
\* for MaxLaps trips of the glider across the width
GliderSide == 5
MaxGliderSide == 6
MaxLaps == 1

(***************************************************************************)
(* Program constants.                                                      *)
(***************************************************************************)
\* main() raises a stagnation window in 1..4 to 5
MinStagnate == 5
\* is_cyclical answers False below this length
MinCycleLen == 4

Max(a, b) == IF a >= b THEN a ELSE b
Min(a, b) == IF a <= b THEN a ELSE b

(***************************************************************************)
(* Boards.                                                                 *)
(***************************************************************************)
Boards(r, c) == [0 .. r - 1 -> [0 .. c - 1 -> BOOLEAN]]

NumRows(b) == Cardinality(DOMAIN b)
NumCols(b) == Cardinality(DOMAIN b[0])

\* bool used as int (Python: True == 1)
AsInt(x) == IF x THEN 1 ELSE 0

\* the (dr, dc) pairs in the order the nested loops visit them, (0, 0) skipped
MooreOffsets ==
    << <<-1, -1>>, <<-1, 0>>, <<-1, 1>>,
       << 0, -1>>,            << 0, 1>>,
       << 1, -1>>, << 1, 0>>, << 1, 1>> >>

\* life_game.py: live_neighbors after the dr/dc loops, from offset number i on
RECURSIVE live_neighbors(_, _, _, _)
live_neighbors(b, r, c, i) ==
    IF i > Len(MooreOffsets) THEN 0
    ELSE LET nr == r + MooreOffsets[i][1]
             nc == c + MooreOffsets[i][2]
             hit == /\ 0 <= nr /\ nr < NumRows(b)
                    /\ 0 <= nc /\ nc < NumCols(b)
                    /\ b[nr][nc]
         IN  AsInt(hit) + live_neighbors(b, r, c, i + 1)

\* life_game.py next_generation(board): no torus
next_generation(b) ==
    [r \in DOMAIN b |->
        [c \in DOMAIN b[0] |->
            IF b[r][c] THEN live_neighbors(b, r, c, 1) \in {2, 3}
            ELSE live_neighbors(b, r, c, 1) = 3]]

\* mutant: the torus flag is ignored
core_live_neighbors_flat(b, torus, r, c, i) == live_neighbors(b, r, c, i)

\* core.py: live_neighbors after the dr/dc loops, torus or not
RECURSIVE core_live_neighbors(_, _, _, _, _)
core_live_neighbors(b, torus, r, c, i) ==
    IF i > Len(MooreOffsets) THEN 0
    ELSE LET nr == r + MooreOffsets[i][1]
             nc == c + MooreOffsets[i][2]
             wr == nr % NumRows(b)
             wc == nc % NumCols(b)
             add == IF torus THEN AsInt(b[wr][wc])
                    ELSE AsInt(/\ 0 <= nr /\ nr < NumRows(b)
                               /\ 0 <= nc /\ nc < NumCols(b)
                               /\ b[nr][nc])
         IN  add + core_live_neighbors(b, torus, r, c, i + 1)

\* mutant: a live cell survives with fewer than two neighbours too
core_next_generation_lonely_survives(b, torus) ==
    [r \in DOMAIN b |->
        [c \in DOMAIN b[0] |->
            IF b[r][c] THEN core_live_neighbors(b, torus, r, c, 1) <= 3
            ELSE core_live_neighbors(b, torus, r, c, 1) = 3]]

\* core.py next_generation(board, torus)
core_next_generation(b, torus) ==
    [r \in DOMAIN b |->
        [c \in DOMAIN b[0] |->
            IF b[r][c] THEN core_live_neighbors(b, torus, r, c, 1) \in {2, 3}
            ELSE core_live_neighbors(b, torus, r, c, 1) = 3]]

(***************************************************************************)
(* is_cyclical.                                                            *)
(***************************************************************************)
\* inner loop: for i in range(k, n): if seq[i] != seq[i - k]: break
RECURSIVE is_cycle(_, _, _)
is_cycle(seq, k, i) ==
    IF i >= Len(seq) THEN TRUE
    ELSE IF seq[i + 1] # seq[i - k + 1] THEN FALSE
    ELSE is_cycle(seq, k, i + 1)

\* outer loop: for k in range(1, n // 2 + 1)
RECURSIVE cycle_search(_, _)
cycle_search(seq, k) ==
    IF k >= Len(seq) \div 2 + 1 THEN FALSE
    ELSE IF is_cycle(seq, k, k) THEN TRUE
    ELSE cycle_search(seq, k + 1)

\* mutant: only a constant run or a two-value alternation counts
is_cyclical_two_value(seq) ==
    IF Len(seq) < MinCycleLen THEN FALSE
    ELSE is_cycle(seq, 1, 1) \/ is_cycle(seq, 2, 2)

\* life_game.py is_cyclical(seq)
is_cyclical(seq) ==
    IF Len(seq) < MinCycleLen THEN FALSE ELSE cycle_search(seq, 1)

\* core.py is_cyclical(seq): the same loops, written out again
RECURSIVE core_is_cycle(_, _, _)
core_is_cycle(seq, k, i) ==
    IF i >= Len(seq) THEN TRUE
    ELSE IF seq[i + 1] # seq[i - k + 1] THEN FALSE
    ELSE core_is_cycle(seq, k, i + 1)

RECURSIVE core_cycle_search(_, _)
core_cycle_search(seq, k) ==
    IF k >= Len(seq) \div 2 + 1 THEN FALSE
    ELSE IF core_is_cycle(seq, k, k) THEN TRUE
    ELSE core_cycle_search(seq, k + 1)

core_is_cyclical(seq) ==
    IF Len(seq) < MinCycleLen THEN FALSE ELSE core_cycle_search(seq, 1)

(***************************************************************************)
(* Patterns: sequences of (row, col) offsets.                              *)
(***************************************************************************)
RECURSIVE SeqMin(_, _, _)
SeqMin(p, f, i) ==
    IF i = Len(p) THEN p[i][f] ELSE Min(p[i][f], SeqMin(p, f, i + 1))

RECURSIVE SeqMax(_, _, _)
SeqMax(p, f, i) ==
    IF i = Len(p) THEN p[i][f] ELSE Max(p[i][f], SeqMax(p, f, i + 1))

\* life_game.py rotate_pattern(pattern, angle)
rotate_pattern(pattern, angle) ==
    IF angle = 0 THEN pattern
    ELSE IF angle \notin {90, 180, 270} THEN pattern
    ELSE LET rotated_pattern ==
                 [i \in 1 .. Len(pattern) |->
                     LET r == pattern[i][1]
                         c == pattern[i][2]
                     IN  IF angle = 90 THEN <<c, -r>>
                         ELSE IF angle = 180 THEN <<-r, -c>>
                         ELSE <<-c, r>>]
             min_r == IF rotated_pattern # <<>> THEN SeqMin(rotated_pattern, 1, 1) ELSE 0
             min_c == IF rotated_pattern # <<>> THEN SeqMin(rotated_pattern, 2, 1) ELSE 0
         IN  [i \in 1 .. Len(rotated_pattern) |->
                 <<rotated_pattern[i][1] - min_r, rotated_pattern[i][2] - min_c>>]

\* life_game.py flip_pattern(pattern)
flip_pattern(pattern) ==
    IF pattern = <<>> THEN <<>>
    ELSE LET max_c == SeqMax(pattern, 2, 1)
         IN  [i \in 1 .. Len(pattern) |-> <<pattern[i][1], max_c - pattern[i][2]>>]

\* mutant: the rotated offsets are returned as they are, not re-anchored
utils_rotate_pattern_raw(pattern, angle) ==
    IF angle \notin {90, 180, 270} THEN pattern
    ELSE [i \in 1 .. Len(pattern) |->
             LET r == pattern[i][1]
                 c == pattern[i][2]
             IN  IF angle = 90 THEN <<c, -r>>
                 ELSE IF angle = 180 THEN <<-r, -c>>
                 ELSE <<-c, r>>]

\* utils.py rotate_pattern(pattern, angle)
utils_rotate_pattern(pattern, angle) ==
    IF angle = 0 THEN pattern
    ELSE IF angle \notin {90, 180, 270} THEN pattern
    ELSE LET rotated_pattern ==
                 [i \in 1 .. Len(pattern) |->
                     LET r == pattern[i][1]
                         c == pattern[i][2]
                     IN  IF angle = 90 THEN <<c, -r>>
                         ELSE IF angle = 180 THEN <<-r, -c>>
                         ELSE <<-c, r>>]
             min_r == IF rotated_pattern # <<>> THEN SeqMin(rotated_pattern, 1, 1) ELSE 0
             min_c == IF rotated_pattern # <<>> THEN SeqMin(rotated_pattern, 2, 1) ELSE 0
         IN  [i \in 1 .. Len(rotated_pattern) |->
                 <<rotated_pattern[i][1] - min_r, rotated_pattern[i][2] - min_c>>]

\* mutant: mirrored about the column after the last one
utils_flip_pattern_off_axis(pattern) ==
    IF pattern = <<>> THEN <<>>
    ELSE LET max_c == SeqMax(pattern, 2, 1) + 1
         IN  [i \in 1 .. Len(pattern) |-> <<pattern[i][1], max_c - pattern[i][2]>>]

\* utils.py flip_pattern(pattern)
utils_flip_pattern(pattern) ==
    IF pattern = <<>> THEN <<>>
    ELSE LET max_c == SeqMax(pattern, 2, 1)
         IN  [i \in 1 .. Len(pattern) |-> <<pattern[i][1], max_c - pattern[i][2]>>]

\* utils.py extract_pattern_from_board: live_cells collected by the nested
\* enumerate loops, from cell number k (row-major) on
RECURSIVE live_cells_from(_, _)
live_cells_from(b, k) ==
    IF k >= NumRows(b) * NumCols(b) THEN <<>>
    ELSE LET r == k \div NumCols(b)
             c == k % NumCols(b)
         IN  (IF b[r][c] THEN << <<r, c>> >> ELSE <<>>) \o live_cells_from(b, k + 1)

\* mutant: the board coordinates are returned as they are
extract_pattern_from_board_absolute(b) == live_cells_from(b, 0)

\* utils.py extract_pattern_from_board(board)
extract_pattern_from_board(b) ==
    LET live_cells == live_cells_from(b, 0)
    IN  IF live_cells = <<>> THEN <<>>
        ELSE LET min_r == SeqMin(live_cells, 1, 1)
                 min_c == SeqMin(live_cells, 2, 1)
             IN  [i \in 1 .. Len(live_cells) |->
                     <<live_cells[i][1] - min_r, live_cells[i][2] - min_c>>]

\* patterns.py is not part of the sources at hand: a two-entry library stands
\* for PATTERN_LIBRARY (names are sequences of characters)
pattern_names ==
    << <<"G", "l", "i", "d", "e", "r">>, <<"B", "l", "o", "c", "k">> >>

PATTERN_LIBRARY(name) ==
    IF name = pattern_names[1]
    THEN << <<0, 1>>, <<1, 2>>, <<2, 0>>, <<2, 1>>, <<2, 2>> >>
    ELSE << <<0, 0>>, <<0, 1>>, <<1, 0>>, <<1, 1>> >>

\* str.lower() on the characters the model uses
LowerChar(ch) ==
    CASE ch = "G" -> "g"
      [] ch = "B" -> "b"
      [] OTHER -> ch

Lower(s) == [i \in 1 .. Len(s) |-> LowerChar(s[i])]

\* Python: q in s (substring)
Contains(s, q) ==
    \E i \in 0 .. Len(s) - Len(q) :
        \A j \in 1 .. Len(q) : s[i + j] = q[j]

RECURSIVE FilterNames(_, _, _)
FilterNames(names, q, i) ==
    IF i > Len(names) THEN <<>>
    ELSE (IF Contains(Lower(names[i]), Lower(q)) THEN <<names[i]>> ELSE <<>>)
         \o FilterNames(names, q, i + 1)

\* run(): display_names / display_names_for_render
display_names ==
    IF search_query # <<>> THEN FilterNames(pattern_names, search_query, 1)
    ELSE pattern_names

\* mutant: a list index counts from the end
PyIndex_from_end(s, i) == s[Len(s) - i]

\* Python list indexing: a negative index counts from the end
PyIndexOk(s, i) == -Len(s) <= i /\ i < Len(s)
PyIndex(s, i) == IF i >= 0 THEN s[i + 1] ELSE s[Len(s) + i + 1]

\* run(): display_pattern as prepared before rendering (<<>> stands for None)
display_pattern ==
    IF placement_mode /\ display_names # <<>>
       /\ PyIndexOk(display_names, selected_pattern_index)
    THEN LET selected_name == PyIndex(display_names, selected_pattern_index)
             pattern == PATTERN_LIBRARY(selected_name)
             flipped == IF pattern_flip THEN flip_pattern(pattern) ELSE pattern
         IN  rotate_pattern(flipped, pattern_rotation)
    ELSE <<>>

(***************************************************************************)
(* The session: run() of life_game.py.                                     *)
(***************************************************************************)
\* create_board(rows, cols, density): random.random() is in [0, 1), so no cell
\* is alive at density <= 0, every cell at density >= 1 (density in percent)
create_board(r, c, d) ==
    {b \in Boards(r, c) :
        \A y \in 0 .. r - 1 : \A x \in 0 .. c - 1 :
            /\ (d <= 0 => ~b[y][x])
            /\ (d >= 100 => b[y][x])}

\* alive = sum(cell for row in board for cell in row)
alive ==
    Cardinality({yx \in (0 .. rows - 1) \X (0 .. cols - 1) : board[yx[1]][yx[2]]})

\* mutant: a plain list, nothing dropped on the left
deque_append_unbounded(h, x) == Append(h, x)

\* deque(maxlen = stagnate_limit).append(x)
deque_append(h, x) ==
    IF Len(h) >= stagnate_limit THEN Tail(h) \o <<x>> ELSE Append(h, x)

is_static_mode == paused \/ edit_mode \/ placement_mode \/ pattern_selection_mode

\* mutant: the window is judged before it is full
stagnation_check_partial ==
    /\ stagnate_limit # 0
    /\ is_cyclical(history)

\* the local `stagnated` as the dead-condition check computes it
stagnation_check ==
    /\ stagnate_limit # 0
    /\ Len(history) = stagnate_limit
    /\ is_cyclical(history)

dead_condition == (alive = 0 /\ ~keep_alive) \/ stagnation_check

\* mutant: the window size is not taken off
effective_generation_raw == generation

effective_generation ==
    IF stagnation_check /\ stagnate_limit # 0
    THEN generation - stagnate_limit
    ELSE generation

\* board sizes and settings of the sessions explored
SessionDims ==
    {rc \in (2 .. MaxCells) \X (2 .. MaxCells) : rc[1] * rc[2] <= MaxCells}

InitLocals ==
    /\ game_no = 1
    /\ max_generation = 0
    /\ board \in create_board(rows, cols, density)
    /\ generation = 0
    /\ history = <<>>
    /\ paused = FALSE
    /\ edit_mode = FALSE
    /\ pattern_selection_mode = FALSE
    /\ placement_mode = FALSE
    /\ cursor_y = 0
    /\ cursor_x = 0
    /\ selected_pattern_index = 0
    /\ pattern_scroll_offset = 0
    /\ search_mode = FALSE
    /\ search_query = <<>>
    /\ pattern_rotation = 0
    /\ pattern_flip = FALSE
    /\ stagnated = FALSE
    /\ processed_input = "none"
    /\ pc = "eval"
    /\ verdict = "none"
    /\ fresh_advances = 0

Init ==
    /\ \E rc \in SessionDims : rows = rc[1] /\ cols = rc[2]
    /\ density = 50
    /\ endless \in BOOLEAN
    /\ keep_alive \in BOOLEAN
    /\ stagnate_limit \in {0, MinStagnate}
    /\ header_items = "game"
    /\ probe = <<>>
    /\ InitLocals

(***************************************************************************)
(* One loop iteration, first half: render, dead-condition check, append.   *)
(***************************************************************************)
\* paused / editing / browsing / placing: nothing is evaluated
RenderStatic ==
    /\ pc = "eval"
    /\ is_static_mode
    /\ pc' = "await"
    /\ verdict' = "none"
    /\ processed_input' = "none"
    /\ UNCHANGED <<cfg_vars, ui_vars, mode_vars, game_no, max_generation, board,
                   generation, history, stagnated, fresh_advances, probe>>

\* the shared part of a dead verdict: fold the effective generation
DeadFold ==
    /\ pc = "eval"
    /\ ~is_static_mode
    /\ dead_condition
    /\ stagnated' = stagnation_check
    /\ max_generation' = Max(max_generation, effective_generation)
    /\ verdict' = "dead"

\* mutant: the endless restart leaves History as it is
DeadRestart_keeps_history ==
    /\ DeadFold
    /\ endless
    /\ game_no < MaxGames
    /\ game_no' = game_no + 1
    /\ board' \in create_board(rows, cols, density)
    /\ generation' = 0
    /\ fresh_advances' = 0
    /\ pc' = "eval"
    /\ UNCHANGED <<cfg_vars, ui_vars, mode_vars, history, processed_input, probe>>

\* dead, --endless: a fresh game
DeadRestart ==
    /\ DeadFold
    /\ endless
    /\ game_no < MaxGames
    /\ game_no' = game_no + 1
    /\ board' \in create_board(rows, cols, density)
    /\ generation' = 0
    /\ history' = <<>>
    /\ fresh_advances' = 0
    /\ pc' = "eval"
    /\ UNCHANGED <<cfg_vars, ui_vars, mode_vars, processed_input, probe>>

\* dead, no --endless: report and leave the loop
DeadExit ==
    /\ DeadFold
    /\ ~endless
    /\ pc' = "done"
    /\ UNCHANGED <<cfg_vars, ui_vars, mode_vars, game_no, board, generation,
                   history, processed_input, fresh_advances, probe>>

\* mutant: a count equal to the last one recorded is not appended again
AppendHistory_only_changes ==
    /\ pc = "eval"
    /\ ~is_static_mode
    /\ ~dead_condition
    /\ stagnated' = FALSE
    /\ history' = IF stagnate_limit # 0
                      /\ (history = <<>> \/ history[Len(history)] # alive)
                   THEN deque_append(history, alive) ELSE history
    /\ pc' = "await"
    /\ verdict' = "none"
    /\ processed_input' = "none"
    /\ UNCHANGED <<cfg_vars, ui_vars, mode_vars, game_no, max_generation, board,
                   generation, fresh_advances, probe>>

\* not dead: append the alive count, then wait for a key
AppendHistory ==
    /\ pc = "eval"
    /\ ~is_static_mode
    /\ ~dead_condition
    /\ stagnated' = FALSE
    /\ history' = IF stagnate_limit # 0 THEN deque_append(history, alive) ELSE history
    /\ pc' = "await"
    /\ verdict' = "none"
    /\ processed_input' = "none"
    /\ UNCHANGED <<cfg_vars, ui_vars, mode_vars, game_no, max_generation, board,
                   generation, fresh_advances, probe>>

(***************************************************************************)
(* Second half: one key (or the timeout, "none") and its handling.         *)
(* Keys are the values of processed_input: single lower-case characters,   *)
(* "UP" "DOWN" "LEFT" "RIGHT" for the arrow sequences, "ESC", "ENTER",     *)
(* "BS" for repr(b'\x7f') / repr(b'\x08').                                 *)
(***************************************************************************)
PrintableKeys == {"r", "p", "e", "l", "n", "f", "/", " ", "x", "g", "b", "t"}

\* the wait is unbounded in a static mode, so the timeout only ends a running wait
Received(k) ==
    /\ pc = "await"
    /\ k = "none" => ~is_static_mode
    /\ processed_input' = k
    /\ pc' = "eval"
    /\ UNCHANGED <<cfg_vars, stagnated, verdict, probe>>

restart_guard(k) == k = "r" /\ ~placement_mode
pause_guard(k) == k = "p"
\* mutant: 'e' is taken while running too
edit_guard_unpaused(k) == ~placement_mode /\ ~pattern_selection_mode /\ k = "e"
edit_guard(k) == paused /\ ~placement_mode /\ ~pattern_selection_mode /\ k = "e"
menu_guard(k) == paused /\ ~edit_mode /\ ~placement_mode /\ k = "l"

\* one of the four tests at the head of the key handling took the key
control_key(k) ==
    restart_guard(k) \/ pause_guard(k) \/ edit_guard(k) \/ menu_guard(k)

\* mutant: the restart keeps the game number
Restart_same_game(k) ==
    /\ Received(k)
    /\ restart_guard(k)
    /\ game_no < MaxGames
    /\ max_generation' = Max(max_generation, generation)
    /\ board' \in create_board(rows, cols, density)
    /\ generation' = 0
    /\ paused' = FALSE
    /\ edit_mode' = FALSE
    /\ history' = <<>>
    /\ fresh_advances' = 0
    /\ UNCHANGED <<ui_vars, game_no, pattern_selection_mode, placement_mode>>

\* mutant: the restart leaves History as it is
Restart_keeps_history(k) ==
    /\ Received(k)
    /\ restart_guard(k)
    /\ game_no < MaxGames
    /\ max_generation' = Max(max_generation, generation)
    /\ game_no' = game_no + 1
    /\ board' \in create_board(rows, cols, density)
    /\ generation' = 0
    /\ paused' = FALSE
    /\ edit_mode' = FALSE
    /\ fresh_advances' = 0
    /\ UNCHANGED <<ui_vars, pattern_selection_mode, placement_mode, history>>

\* 'r' outside placement
Restart(k) ==
    /\ Received(k)
    /\ restart_guard(k)
    /\ game_no < MaxGames
    /\ max_generation' = Max(max_generation, generation)
    /\ game_no' = game_no + 1
    /\ board' \in create_board(rows, cols, density)
    /\ generation' = 0
    /\ paused' = FALSE
    /\ edit_mode' = FALSE
    /\ history' = <<>>
    /\ fresh_advances' = 0
    /\ UNCHANGED <<ui_vars, pattern_selection_mode, placement_mode>>

\* mutant: 'p' leaves History as it is
TogglePause_keeps_history(k) ==
    /\ Received(k)
    /\ ~restart_guard(k)
    /\ pause_guard(k)
    /\ paused' = ~paused
    /\ edit_mode' = FALSE
    /\ placement_mode' = FALSE
    /\ pattern_selection_mode' = FALSE
    /\ fresh_advances' = 0
    /\ UNCHANGED <<ui_vars, game_no, max_generation, board, generation, history>>

\* 'p'
TogglePause(k) ==
    /\ Received(k)
    /\ ~restart_guard(k)
    /\ pause_guard(k)
    /\ paused' = ~paused
    /\ edit_mode' = FALSE
    /\ placement_mode' = FALSE
    /\ pattern_selection_mode' = FALSE
    /\ history' = <<>>
    /\ fresh_advances' = 0
    /\ UNCHANGED <<ui_vars, game_no, max_generation, board, generation>>

\* 'e' while paused
ToggleEdit(k) ==
    /\ Received(k)
    /\ ~restart_guard(k) /\ ~pause_guard(k)
    /\ edit_guard(k)
    /\ edit_mode' = ~edit_mode
    /\ history' = <<>>
    /\ fresh_advances' = 0
    /\ UNCHANGED <<ui_vars, game_no, max_generation, board, generation,
                   paused, pattern_selection_mode, placement_mode>>

\* 'l' while paused
TogglePatternMenu(k) ==
    /\ Received(k)
    /\ ~restart_guard(k) /\ ~pause_guard(k) /\ ~edit_guard(k)
    /\ menu_guard(k)
    /\ pattern_selection_mode' = ~pattern_selection_mode
    /\ placement_mode' = FALSE
    /\ edit_mode' = FALSE
    /\ fresh_advances' = 0
    /\ UNCHANGED <<ui_vars, game_no, max_generation, board, generation,
                   history, paused>>

\* rows left for the list of names under the header and the instructions
header_height == IF header_items # "" THEN 3 ELSE 1
instruction_height == 3
max_items == rows - header_height - instruction_height

\* search_query[:-1]
DropLast(q) == IF q = <<>> THEN <<>> ELSE SubSeq(q, 1, Len(q) - 1)

\* pattern selection mode: every key not taken above
PatternSelectionKey(k) ==
    /\ Received(k)
    /\ ~control_key(k)
    /\ pattern_selection_mode
    /\ (search_mode /\ k \in PrintableKeys) => Len(search_query) < MaxQuery
    /\ IF search_mode
       THEN /\ search_query' =
                   IF k \in PrintableKeys THEN Append(search_query, k)
                   ELSE IF k = "BS" THEN DropLast(search_query)
                   ELSE IF k = "ESC" THEN <<>>
                   ELSE search_query
            /\ search_mode' = (k \notin {"ENTER", "ESC"})
            /\ selected_pattern_index' = 0
            /\ pattern_scroll_offset' = 0
            /\ UNCHANGED <<mode_vars, pattern_rotation, pattern_flip>>
       ELSE CASE k = "/" ->
                   /\ search_mode' = TRUE
                   /\ search_query' = <<>>
                   /\ UNCHANGED <<mode_vars, selected_pattern_index,
                                  pattern_scroll_offset, pattern_rotation, pattern_flip>>
              [] k = "UP" ->
                   LET idx == Max(0, selected_pattern_index - 1)
                   IN  /\ selected_pattern_index' = idx
                       /\ pattern_scroll_offset' =
                              IF idx < pattern_scroll_offset THEN idx
                              ELSE pattern_scroll_offset
                       /\ UNCHANGED <<mode_vars, search_mode, search_query,
                                      pattern_rotation, pattern_flip>>
              [] k = "DOWN" ->
                   LET idx == Min(Len(display_names) - 1, selected_pattern_index + 1)
                   IN  /\ selected_pattern_index' = idx
                       /\ pattern_scroll_offset' =
                              IF idx >= pattern_scroll_offset + max_items
                              THEN idx - max_items + 1
                              ELSE pattern_scroll_offset
                       /\ UNCHANGED <<mode_vars, search_mode, search_query,
                                      pattern_rotation, pattern_flip>>
              [] k = " " ->
                   IF display_names # <<>>
                   THEN /\ pattern_selection_mode' = FALSE
                        /\ placement_mode' = TRUE
                        /\ pattern_rotation' = 0
                        /\ pattern_flip' = FALSE
                        /\ UNCHANGED <<paused, edit_mode, selected_pattern_index,
                                       pattern_scroll_offset, search_mode, search_query>>
                   ELSE UNCHANGED <<mode_vars, selected_pattern_index,
                                    pattern_scroll_offset, search_mode, search_query,
                                    pattern_rotation, pattern_flip>>
              [] k \in {"l", "ESC"} ->
                   /\ pattern_selection_mode' = FALSE
                   /\ UNCHANGED <<paused, edit_mode, placement_mode,
                                  selected_pattern_index, pattern_scroll_offset,
                                  search_mode, search_query, pattern_rotation,
                                  pattern_flip>>
              [] OTHER ->
                   UNCHANGED <<mode_vars, selected_pattern_index,
                               pattern_scroll_offset, search_mode, search_query,
                               pattern_rotation, pattern_flip>>
    /\ fresh_advances' = 0
    /\ UNCHANGED <<cursor_y, cursor_x, game_no, max_generation, board,
                   generation, history>>

\* the arrow keys on the cursor, clamped to the grid
move_y(k) ==
    IF k = "UP" THEN Max(0, cursor_y - 1)
    ELSE IF k = "DOWN" THEN Min(rows - 1, cursor_y + 1)
    ELSE cursor_y

\* mutant: Right is not held back at the last column
move_x_unclamped(k) ==
    IF k = "LEFT" THEN Max(0, cursor_x - 1)
    ELSE IF k = "RIGHT" THEN cursor_x + 1
    ELSE cursor_x

move_x(k) ==
    IF k = "LEFT" THEN Max(0, cursor_x - 1)
    ELSE IF k = "RIGHT" THEN Min(cols - 1, cursor_x + 1)
    ELSE cursor_x

\* mutant: the stamp toggles the cells it covers
RECURSIVE place_pattern_toggle(_, _, _)
place_pattern_toggle(b, pat, i) ==
    IF i > Len(pat) THEN b
    ELSE LET r == cursor_y + pat[i][1]
             c == cursor_x + pat[i][2]
             nb == IF 0 <= r /\ r < rows /\ 0 <= c /\ c < cols
                   THEN [b EXCEPT ![r][c] = ~b[r][c]]
                   ELSE b
         IN  place_pattern_toggle(nb, pat, i + 1)

\* for r_offset, c_offset in display_pattern: board[r][c] = True when in bounds
RECURSIVE place_pattern(_, _, _)
place_pattern(b, pat, i) ==
    IF i > Len(pat) THEN b
    ELSE LET r == cursor_y + pat[i][1]
             c == cursor_x + pat[i][2]
             nb == IF 0 <= r /\ r < rows /\ 0 <= c /\ c < cols
                   THEN [b EXCEPT ![r][c] = TRUE]
                   ELSE b
         IN  place_pattern(nb, pat, i + 1)

\* mutant: leaving placement commits the preview
PlacementKey_commits_on_cancel(k) ==
    /\ Received(k)
    /\ ~control_key(k)
    /\ ~pattern_selection_mode
    /\ placement_mode
    /\ cursor_y' = move_y(k)
    /\ cursor_x' = move_x(k)
    /\ pattern_rotation' =
           IF k = "r" THEN (pattern_rotation + 90) % 360 ELSE pattern_rotation
    /\ pattern_flip' = IF k = "f" THEN ~pattern_flip ELSE pattern_flip
    /\ board' = IF k \in {" ", "l", "ESC"} /\ display_pattern # <<>>
                THEN place_pattern(board, display_pattern, 1)
                ELSE board
    /\ placement_mode' = (k \notin {"l", "ESC"})
    /\ fresh_advances' = 0
    /\ UNCHANGED <<paused, edit_mode, pattern_selection_mode,
                   selected_pattern_index, pattern_scroll_offset, search_mode,
                   search_query, game_no, max_generation, generation, history>>

\* mutant: the rotation is not taken modulo 360
PlacementKey_rotation_unbounded(k) ==
    /\ Received(k)
    /\ ~control_key(k)
    /\ ~pattern_selection_mode
    /\ placement_mode
    /\ cursor_y' = move_y(k)
    /\ cursor_x' = move_x(k)
    /\ pattern_rotation' =
           IF k = "r" THEN pattern_rotation + 90 ELSE pattern_rotation
    /\ pattern_flip' = IF k = "f" THEN ~pattern_flip ELSE pattern_flip
    /\ board' = IF k = " " /\ display_pattern # <<>>
                THEN place_pattern(board, display_pattern, 1)
                ELSE board
    /\ placement_mode' = (k \notin {"l", "ESC"})
    /\ fresh_advances' = 0
    /\ UNCHANGED <<paused, edit_mode, pattern_selection_mode,
                   selected_pattern_index, pattern_scroll_offset, search_mode,
                   search_query, game_no, max_generation, generation, history>>

\* placement mode: every key not taken above
PlacementKey(k) ==
    /\ Received(k)
    /\ ~control_key(k)
    /\ ~pattern_selection_mode
    /\ placement_mode
    /\ cursor_y' = move_y(k)
    /\ cursor_x' = move_x(k)
    /\ pattern_rotation' =
           IF k = "r" THEN (pattern_rotation + 90) % 360 ELSE pattern_rotation
    /\ pattern_flip' = IF k = "f" THEN ~pattern_flip ELSE pattern_flip
    /\ board' = IF k = " " /\ display_pattern # <<>>
                THEN place_pattern(board, display_pattern, 1)
                ELSE board
    /\ placement_mode' = (k \notin {"l", "ESC"})
    /\ fresh_advances' = 0
    /\ UNCHANGED <<paused, edit_mode, pattern_selection_mode,
                   selected_pattern_index, pattern_scroll_offset, search_mode,
                   search_query, game_no, max_generation, generation, history>>

\* mutant: Space inverts the whole row of the cursor
EditKey_toggles_row(k) ==
    /\ Received(k)
    /\ ~control_key(k)
    /\ ~pattern_selection_mode
    /\ ~placement_mode
    /\ edit_mode
    /\ cursor_y' = move_y(k)
    /\ cursor_x' = move_x(k)
    /\ board' = IF k = " "
                THEN [board EXCEPT ![cursor_y] =
                         [c \in 0 .. cols - 1 |-> ~board[cursor_y][c]]]
                ELSE board
    /\ fresh_advances' = 0
    /\ UNCHANGED <<mode_vars, selected_pattern_index, pattern_scroll_offset,
                   search_mode, search_query, pattern_rotation, pattern_flip,
                   game_no, max_generation, generation, history>>

\* edit mode: every key not taken above
EditKey(k) ==
    /\ Received(k)
    /\ ~control_key(k)
    /\ ~pattern_selection_mode
    /\ ~placement_mode
    /\ edit_mode
    /\ cursor_y' = move_y(k)
    /\ cursor_x' = move_x(k)
    /\ board' = IF k = " "
                THEN [board EXCEPT ![cursor_y][cursor_x] = ~board[cursor_y][cursor_x]]
                ELSE board
    /\ fresh_advances' = 0
    /\ UNCHANGED <<mode_vars, selected_pattern_index, pattern_scroll_offset,
                   search_mode, search_query, pattern_rotation, pattern_flip,
                   game_no, max_generation, generation, history>>

no_mode_took(k) ==
    /\ ~control_key(k)
    /\ ~pattern_selection_mode
    /\ ~placement_mode
    /\ ~edit_mode

\* board = next_generation(board); generation += 1
proceed_to_next_generation ==
    /\ generation < MaxGen
    /\ board' = next_generation(board)
    /\ generation' = generation + 1

\* mutant: the step resumes the game
StepThrough_resumes(k) ==
    /\ Received(k)
    /\ no_mode_took(k)
    /\ paused /\ k = "n"
    /\ history' = <<>>
    /\ proceed_to_next_generation
    /\ fresh_advances' = 0
    /\ paused' = FALSE
    /\ UNCHANGED <<ui_vars, edit_mode, pattern_selection_mode, placement_mode,
                   game_no, max_generation>>

\* paused, 'n': one generation, History emptied
StepThrough(k) ==
    /\ Received(k)
    /\ no_mode_took(k)
    /\ paused /\ k = "n"
    /\ history' = <<>>
    /\ proceed_to_next_generation
    /\ fresh_advances' = 0
    /\ UNCHANGED <<ui_vars, mode_vars, game_no, max_generation>>

\* paused, any other key: nothing
PausedIgnore(k) ==
    /\ Received(k)
    /\ no_mode_took(k)
    /\ paused /\ k # "n"
    /\ fresh_advances' = 0
    /\ UNCHANGED <<ui_vars, mode_vars, game_no, max_generation, board,
                   generation, history>>

\* mutant: only the timeout advances, a key press is dropped
Advance_timeout_only(k) ==
    /\ Received(k)
    /\ no_mode_took(k)
    /\ ~paused
    /\ IF k = "none"
       THEN proceed_to_next_generation
       ELSE UNCHANGED <<board, generation>>
    /\ fresh_advances' = Min(fresh_advances + 1, stagnate_limit)
    /\ UNCHANGED <<ui_vars, mode_vars, game_no, max_generation, history>>

\* running: any key not taken above, and the timeout
Advance(k) ==
    /\ Received(k)
    /\ no_mode_took(k)
    /\ ~paused
    /\ proceed_to_next_generation
    /\ fresh_advances' = Min(fresh_advances + 1, stagnate_limit)
    /\ UNCHANGED <<ui_vars, mode_vars, game_no, max_generation, history>>

\* mutant: the interrupt reports the maximum as it stands
Interrupt_no_fold ==
    /\ pc \in {"eval", "await"}
    /\ pc' = "done"
    /\ verdict' = "interrupt"
    /\ UNCHANGED <<cfg_vars, ui_vars, mode_vars, game_no, max_generation, board,
                   generation, history, stagnated, processed_input,
                   fresh_advances, probe>>

\* Ctrl-C anywhere in the loop: fold the generation, report, leave
Interrupt ==
    /\ pc \in {"eval", "await"}
    /\ max_generation' = Max(max_generation, generation)
    /\ pc' = "done"
    /\ verdict' = "interrupt"
    /\ UNCHANGED <<cfg_vars, ui_vars, mode_vars, game_no, board, generation,
                   history, stagnated, processed_input, fresh_advances, probe>>

Handle(k) ==
    \/ Restart(k)
    \/ TogglePause(k)
    \/ ToggleEdit(k)
    \/ TogglePatternMenu(k)
    \/ PatternSelectionKey(k)
    \/ PlacementKey(k)
    \/ EditKey(k)
    \/ StepThrough(k)
    \/ PausedIgnore(k)
    \/ Advance(k)

Evaluate == RenderStatic \/ DeadRestart \/ DeadExit \/ AppendHistory

\* the keys a session is driven with: the timeout, the mode keys, an unbound
\* key, and 't' (KEY_MAP's TOGGLE_TORUS, which run() has no branch for)
SessionKeys == {"none", "r", "p", "e", "l", "n", "x", "t"}

\* without Space the library is browsed but nothing is selected for placement
Next ==
    \/ Evaluate
    \/ \E k \in SessionKeys :
           \/ Restart(k)
           \/ TogglePause(k)
           \/ ToggleEdit(k)
           \/ TogglePatternMenu(k)
           \/ PatternSelectionKey(k)
           \/ EditKey(k)
           \/ StepThrough(k)
           \/ PausedIgnore(k)
           \/ Advance(k)

Spec == Init /\ [][Next]_vars

\* the same session with Space as well, so that cells are toggled and patterns
\* selected and placed; it starts from a full board with stagnation enabled
ModeKeys == SessionKeys \union {" "}

InitModes ==
    /\ \E rc \in SessionDims : rows = rc[1] /\ cols = rc[2]
    /\ density = 100
    /\ endless \in BOOLEAN
    /\ keep_alive \in BOOLEAN
    /\ stagnate_limit = MinStagnate
    /\ header_items = "game"
    /\ probe = <<>>
    /\ InitLocals

NextModes ==
    \/ Evaluate
    \/ \E k \in ModeKeys : Handle(k)

SpecModes == InitModes /\ [][NextModes]_vars

\* Ctrl-C during time.sleep(interval) of the endless restart: the dead game's
\* effective generation is folded already, nothing else of the restart is done
InterruptRestartWait ==
    /\ pc = "eval"
    /\ ~is_static_mode
    /\ dead_condition
    /\ endless
    /\ stagnated' = stagnation_check
    /\ max_generation' =
           Max(Max(max_generation, effective_generation), generation)
    /\ pc' = "done"
    /\ verdict' = "interrupt"
    /\ UNCHANGED <<cfg_vars, ui_vars, mode_vars, game_no, board, generation,
                   history, processed_input, fresh_advances, probe>>

\* the session of SpecModes, interrupted at any point
NextInterrupt ==
    \/ NextModes
    \/ Interrupt
    \/ InterruptRestartWait

SpecInterrupt == InitModes /\ [][NextInterrupt]_vars

\* browsing the library: a one-column board that is full, so that a placement
\* leaves it as it is, and no stagnation window; the keys open the library,
\* move in the list, search, select, flip, rotate and restart.  The grid is too
\* low for any row of the list, or just high enough for one.  While running
\* the user pauses or restarts before a generation passes.
BrowseKeys ==
    {"p", "l", "r", "/", "x", "f", "ENTER", "ESC", "UP", "DOWN", " "}

InitBrowse ==
    /\ header_items = "game"
    /\ rows \in {2, header_height + instruction_height + 1}
    /\ cols = 1
    /\ density = 100
    /\ endless = FALSE
    /\ keep_alive = TRUE
    /\ stagnate_limit = 0
    /\ probe = <<>>
    /\ InitLocals

NextBrowse ==
    \/ RenderStatic
    \/ AppendHistory
    \/ \E k \in BrowseKeys :
           \/ Restart(k)
           \/ TogglePause(k)
           \/ TogglePatternMenu(k)
           \/ PatternSelectionKey(k)
           \/ PlacementKey(k)
           \/ PausedIgnore(k)

SpecBrowse == InitBrowse /\ [][NextBrowse]_vars

\* placing patterns: a 2 x 3 board, empty at first, so that offsets fall inside
\* and outside the grid; the keys select, move, rotate, flip, place and cancel,
\* and edit cells.  While running the user pauses or restarts before a
\* generation passes.
PlacingKeys ==
    {"p", "l", "e", " ", "UP", "DOWN", "LEFT", "RIGHT", "r", "f", "ESC"}

InitPlacing ==
    /\ rows = 2 /\ cols = 3
    /\ density = 0
    /\ endless = FALSE
    /\ keep_alive = TRUE
    /\ stagnate_limit = 0
    /\ header_items = "game"
    /\ probe = <<>>
    /\ InitLocals

NextPlacing ==
    \/ RenderStatic
    \/ AppendHistory
    \/ \E k \in PlacingKeys :
           \/ Restart(k)
           \/ TogglePause(k)
           \/ ToggleEdit(k)
           \/ TogglePatternMenu(k)
           \/ PatternSelectionKey(k)
           \/ PlacementKey(k)
           \/ EditKey(k)
           \/ PausedIgnore(k)

SpecPlacing == InitPlacing /\ [][NextPlacing]_vars

(***************************************************************************)
(* The pure functions on their own: an argument is drawn, both copies of   *)
(* the function are applied to it.  The session does not run.              *)
(***************************************************************************)
InitIdle ==
    /\ rows = 0 /\ cols = 0 /\ density = 0
    /\ endless = FALSE /\ keep_alive = FALSE /\ stagnate_limit = 0
    /\ header_items = "game"
    /\ game_no = 1 /\ max_generation = 0 /\ board = <<>> /\ generation = 0
    /\ history = <<>>
    /\ paused = FALSE /\ edit_mode = FALSE
    /\ pattern_selection_mode = FALSE /\ placement_mode = FALSE
    /\ cursor_y = 0 /\ cursor_x = 0
    /\ selected_pattern_index = 0 /\ pattern_scroll_offset = 0
    /\ search_mode = FALSE /\ search_query = <<>>
    /\ pattern_rotation = 0 /\ pattern_flip = FALSE
    /\ stagnated = FALSE /\ processed_input = "none"
    /\ pc = "idle" /\ verdict = "none" /\ fresh_advances = 0

session_vars ==
    <<cfg_vars, ui_vars, mode_vars, game_no, max_generation, board, generation,
      history, stagnated, processed_input, pc, verdict, fresh_advances>>

\* every board shape of at most MaxArea cells
ProbeDims ==
    {rc \in (1 .. MaxArea) \X (1 .. MaxArea) : rc[1] * rc[2] <= MaxArea}

InitNextGeneration ==
    /\ InitIdle
    /\ \E rc \in ProbeDims, t \in BOOLEAN :
           \E b \in Boards(rc[1], rc[2]) :
               probe = [fn |-> "next_generation", stage |-> "arg",
                        board |-> b, torus |-> t,
                        new_board |-> <<>>, new_board_lg |-> <<>>]

\* core.next_generation(board, torus)
ApplyCoreNextGeneration ==
    /\ probe.fn = "next_generation"
    /\ probe.stage = "arg"
    /\ probe' = [probe EXCEPT
                    !.stage = "core",
                    !.new_board = core_next_generation(probe.board, probe.torus)]
    /\ UNCHANGED session_vars

\* life_game.next_generation(board)
ApplyNextGeneration ==
    /\ probe.fn = "next_generation"
    /\ probe.stage = "core"
    /\ probe' = [probe EXCEPT
                    !.stage = "both",
                    !.new_board_lg = next_generation(probe.board)]
    /\ UNCHANGED session_vars

NextNextGeneration == ApplyCoreNextGeneration \/ ApplyNextGeneration

SpecNextGeneration == InitNextGeneration /\ [][NextNextGeneration]_vars

Sequences_(n, lo, hi) == UNION {[1 .. m -> lo .. hi] : m \in 0 .. n}

InitIsCyclical ==
    /\ InitIdle
    /\ \E s \in Sequences_(MaxSeqLen, 1, MaxVal) :
           probe = [fn |-> "is_cyclical", stage |-> "arg", seq |-> s,
                    result |-> FALSE, result_lg |-> FALSE]

\* core.is_cyclical(seq)
ApplyCoreIsCyclical ==
    /\ probe.fn = "is_cyclical"
    /\ probe.stage = "arg"
    /\ probe' = [probe EXCEPT !.stage = "core",
                              !.result = core_is_cyclical(probe.seq)]
    /\ UNCHANGED session_vars

\* life_game.is_cyclical(seq)
ApplyIsCyclical ==
    /\ probe.fn = "is_cyclical"
    /\ probe.stage = "core"
    /\ probe' = [probe EXCEPT !.stage = "both",
                              !.result_lg = is_cyclical(probe.seq)]
    /\ UNCHANGED session_vars

NextIsCyclical == ApplyCoreIsCyclical \/ ApplyIsCyclical

SpecIsCyclical == InitIsCyclical /\ [][NextIsCyclical]_vars

(***************************************************************************)
(* Pattern geometry on its own: a list of offsets is drawn, one copy of    *)
(* the functions (utils.py or life_game.py) is chosen, and either one      *)
(* rotation, a chain of quarter turns, or a chain of flips is applied.     *)
(***************************************************************************)
Offsets == (0 .. MaxOffset) \X (0 .. MaxOffset)

OffsetLists == UNION {[1 .. m -> Offsets] : m \in 0 .. MaxPatLen}

Angles == {0, 90, 180, 270}

InitGeometry ==
    /\ InitIdle
    /\ \E p \in OffsetLists, m \in {"utils", "life_game"} :
           probe = [fn |-> "geometry", copy |-> m, pattern |-> p,
                    op |-> "none", angle |-> 0, times |-> 0,
                    arg |-> <<>>, result |-> p]

\* the next rotation of a chain: any angle first, then quarter turns only
RotateStep(m, angle) ==
    /\ probe.fn = "geometry"
    /\ probe.copy = m
    /\ \/ probe.op = "none"
       \/ /\ probe.op = "rotate"
          /\ probe.angle = 90
          /\ angle = 90
          /\ probe.times < MaxTurns

FlipStep(m) ==
    /\ probe.fn = "geometry"
    /\ probe.copy = m
    /\ probe.op \in {"none", "flip"}
    /\ probe.times < MaxFlips

\* utils.rotate_pattern(result, angle)
ApplyUtilsRotatePattern ==
    \E angle \in Angles :
        /\ RotateStep("utils", angle)
        /\ probe' = [probe EXCEPT
                        !.op = "rotate", !.angle = angle,
                        !.times = probe.times + 1,
                        !.arg = probe.result,
                        !.result = utils_rotate_pattern(probe.result, angle)]
        /\ UNCHANGED session_vars

\* life_game.rotate_pattern(result, angle)
ApplyRotatePattern ==
    \E angle \in Angles :
        /\ RotateStep("life_game", angle)
        /\ probe' = [probe EXCEPT
                        !.op = "rotate", !.angle = angle,
                        !.times = probe.times + 1,
                        !.arg = probe.result,
                        !.result = rotate_pattern(probe.result, angle)]
        /\ UNCHANGED session_vars

\* utils.flip_pattern(result)
ApplyUtilsFlipPattern ==
    /\ FlipStep("utils")
    /\ probe' = [probe EXCEPT
                    !.op = "flip", !.times = probe.times + 1,
                    !.arg = probe.result,
                    !.result = utils_flip_pattern(probe.result)]
    /\ UNCHANGED session_vars

\* life_game.flip_pattern(result)
ApplyFlipPattern ==
    /\ FlipStep("life_game")
    /\ probe' = [probe EXCEPT
                    !.op = "flip", !.times = probe.times + 1,
                    !.arg = probe.result,
                    !.result = flip_pattern(probe.result)]
    /\ UNCHANGED session_vars

NextGeometry ==
    \/ ApplyUtilsRotatePattern
    \/ ApplyRotatePattern
    \/ ApplyUtilsFlipPattern
    \/ ApplyFlipPattern

SpecGeometry == InitGeometry /\ [][NextGeometry]_vars

(***************************************************************************)
(* extract_pattern_from_board on its own: a board is drawn together with   *)
(* a translation of it that keeps every live cell on the board, and the    *)
(* function is applied to both.                                            *)
(***************************************************************************)
\* the board moved down by dr rows and right by dc columns
Translated(b, dr, dc) ==
    [y \in DOMAIN b |->
        [x \in DOMAIN b[0] |->
            /\ y - dr \in DOMAIN b
            /\ x - dc \in DOMAIN b[0]
            /\ b[y - dr][x - dc]]]

InitExtract ==
    /\ InitIdle
    /\ \E rc \in ProbeDims :
           \E b \in Boards(rc[1], rc[2]), dr \in 0 .. rc[1] - 1, dc \in 0 .. rc[2] - 1 :
               /\ Len(live_cells_from(Translated(b, dr, dc), 0))
                      = Len(live_cells_from(b, 0))
               /\ probe = [fn |-> "extract", stage |-> "arg",
                           board |-> b, moved |-> Translated(b, dr, dc),
                           pattern |-> <<>>, pattern_moved |-> <<>>]

\* utils.extract_pattern_from_board(board), on the board and on its translation
ApplyExtractPatternFromBoard ==
    /\ probe.fn = "extract"
    /\ probe.stage = "arg"
    /\ probe' = [probe EXCEPT
                    !.stage = "done",
                    !.pattern = extract_pattern_from_board(probe.board),
                    !.pattern_moved = extract_pattern_from_board(probe.moved)]
    /\ UNCHANGED session_vars

NextExtract == ApplyExtractPatternFromBoard

SpecExtract == InitExtract /\ [][NextExtract]_vars

(***************************************************************************)
(* A glider run: core.next_generation applied again and again to a board   *)
(* that starts with one glider, in torus or in non-torus mode.             *)
(***************************************************************************)
\* the glider that travels one row down and one column right in 4 generations
GliderCells == {<<0, 1>>, <<1, 2>>, <<2, 0>>, <<2, 1>>, <<2, 2>>}

\* an r x c board, dead but for a glider with its corner at (oy, ox)
GliderBoard(r, c, oy, ox) ==
    [y \in 0 .. r - 1 |-> [x \in 0 .. c - 1 |-> <<y - oy, x - ox>> \in GliderCells]]

\* sum(cell for row in board for cell in row)
LiveCount(b) ==
    Cardinality({yx \in (DOMAIN b) \X (DOMAIN b[0]) : b[yx[1]][yx[2]]})

InitGlider ==
    /\ InitIdle
    /\ \E r \in GliderSide .. MaxGliderSide, c \in GliderSide .. MaxGliderSide,
          t \in BOOLEAN :
           \E oy \in 0 .. r - 3, ox \in 0 .. c - 3 :
               probe = [fn |-> "glider", torus |-> t,
                        start |-> GliderBoard(r, c, oy, ox),
                        board |-> GliderBoard(r, c, oy, ox),
                        generation |-> 0, counts |-> <<5>>]

\* board = next_generation(board, torus)
GliderStep ==
    /\ probe.fn = "glider"
    /\ probe.generation < 4 * NumCols(probe.board) * MaxLaps
    /\ LET new_board == core_next_generation(probe.board, probe.torus)
       IN  probe' = [probe EXCEPT
                        !.board = new_board,
                        !.generation = probe.generation + 1,
                        !.counts = Append(probe.counts, LiveCount(new_board))]
    /\ UNCHANGED session_vars

NextGlider == GliderStep

SpecGlider == InitGlider /\ [][NextGlider]_vars

(***************************************************************************)
(* input_handler.get_key on its own.  A character or byte is a string:     *)
(* "ESC" is \x1b, "DEL" \x7f, "BS" \x08, "CR" \r, "xe0" and "x00" the two   *)
(* prefix bytes msvcrt sends before an extended key; the others stand for  *)
(* themselves.  A str or bytes value is a sequence of them.                *)
(***************************************************************************)
\* str.lower() on one character
KeyLowerChar(ch) ==
    CASE ch = "A" -> "a"
      [] ch = "B" -> "b"
      [] ch = "C" -> "c"
      [] ch = "D" -> "d"
      [] ch = "H" -> "h"
      [] ch = "K" -> "k"
      [] ch = "M" -> "m"
      [] ch = "P" -> "p"
      [] ch = "S" -> "s"
      [] OTHER -> ch

KeyLower(s) == [i \in 1 .. Len(s) |-> KeyLowerChar(s[i])]

\* str.isalpha() and str.isprintable() on one character
IsAlpha(ch) ==
    ch \in {"A", "B", "C", "D", "H", "K", "M", "P", "S",
            "a", "b", "c", "d", "h", "k", "m", "p", "s"}

IsPrintable(ch) == ch \notin {"ESC", "DEL", "BS", "CR", "x00", "xe0"}

\* bytes.decode('utf-8') succeeds: \xe0 opens a three-byte sequence that no
\* ASCII byte continues, every other byte here is ASCII
Utf8Decodes(bytes) == \A i \in 1 .. Len(bytes) : bytes[i] # "xe0"

\* KEY_MAP.  A key is a str, or the repr() of a bytes value; is_repr tells
\* which.  "absent" when the key is not in the map.
KEY_MAP(is_repr, s) ==
    IF is_repr
    THEN CASE s = <<"xe0", "H">> -> "Key.UP"
           [] s = <<"xe0", "P">> -> "Key.DOWN"
           [] s = <<"xe0", "K">> -> "Key.LEFT"
           [] s = <<"xe0", "M">> -> "Key.RIGHT"
           [] s = <<"BS">> -> "Key.BACKSPACE"
           [] s = <<"DEL">> -> "Key.BACKSPACE"
           [] s = <<"xe0", "S">> -> "Key.DELETE"
           [] OTHER -> "absent"
    ELSE CASE s = <<"ESC", "[", "A">> -> "Key.UP"
           [] s = <<"ESC", "[", "B">> -> "Key.DOWN"
           [] s = <<"ESC", "[", "D">> -> "Key.LEFT"
           [] s = <<"ESC", "[", "C">> -> "Key.RIGHT"
           [] s = <<"ESC">> -> "Key.CANCEL"
           [] s = <<"DEL">> -> "Key.BACKSPACE"
           [] s = <<"ESC", "[", "3", "~">> -> "Key.DELETE"
           [] s = <<"BS">> -> "Key.BACKSPACE"
           [] s = <<" ">> -> "Key.SELECT"
           [] s = <<"CR">> -> "Key.ENTER"
           [] s = <<"r">> -> "Key.RESTART_AND_ROTATE"
           [] s = <<"p">> -> "Key.PAUSE"
           [] s = <<"e">> -> "Key.EDIT"
           [] s = <<"l">> -> "Key.PATTERN_MENU"
           [] s = <<"t">> -> "Key.TOGGLE_TORUS"
           [] s = <<"f">> -> "Key.FLIP"
           [] s = <<"n">> -> "Key.NEXT_FRAME"
           [] s = <<"/">> -> "Key.SEARCH"
           [] OTHER -> "absent"

\* the while loop after '\x1b': characters are taken while any is waiting,
\* up to and including the first letter or '~'
RECURSIVE read_escape(_, _)
read_escape(user_input, stdin) ==
    IF stdin = <<>> THEN <<user_input, stdin>>
    ELSE LET next_char == Head(stdin)
         IN  IF IsAlpha(next_char) \/ next_char = "~"
             THEN <<Append(user_input, next_char), Tail(stdin)>>
             ELSE read_escape(Append(user_input, next_char), Tail(stdin))

\* what is typed ahead of the call
PosixChars == {"ESC", "[", "A", "B", "C", "D", "p", "~"}
NtBytes == {"xe0", "x00", "H", "P", "K", "M", "p"}

Buffers(units) == UNION {[1 .. m -> units] : m \in 0 .. MaxBuffer}

\* msvcrt delivers an extended key as a prefix byte and a second byte
NtBuffers ==
    {b \in Buffers(NtBytes) :
        \A i \in 1 .. Len(b) :
            (b[i] \in {"xe0", "x00"} /\ (i = 1 \/ b[i - 1] \notin {"xe0", "x00"}))
                => i < Len(b)}

InitGetKey ==
    /\ InitIdle
    /\ \E os \in {"nt", "posix"}, sm \in BOOLEAN, finite \in BOOLEAN :
           \E b \in (IF os = "nt" THEN NtBuffers ELSE Buffers(PosixChars)) :
               probe = [fn |-> "get_key", os_name |-> os, search_mode |-> sm,
                        timeout_finite |-> finite, typed |-> b, stdin |-> b,
                        stage |-> "call", got |-> FALSE, user_input |-> <<>>,
                        is_repr |-> FALSE, processed_input |-> <<>>,
                        result |-> "None"]

\* os.name == "nt": kbhit, getch, and a second getch after \xe0 or \x00
GetKeyReadNt ==
    /\ probe.fn = "get_key"
    /\ probe.stage = "call"
    /\ probe.os_name = "nt"
    /\ probe.stdin # <<>>
    /\ LET first == Head(probe.stdin)
           two == first \in {"xe0", "x00"}
       IN  probe' = [probe EXCEPT
                        !.stage = "read", !.got = TRUE,
                        !.user_input = IF two THEN SubSeq(probe.stdin, 1, 2)
                                       ELSE <<first>>,
                        !.stdin = IF two THEN Tail(Tail(probe.stdin))
                                  ELSE Tail(probe.stdin)]
    /\ UNCHANGED session_vars

\* Unix: select, read(1), and the rest of an escape sequence.  How many of
\* the characters typed select() reports as waiting after the first read
\* depends on their arrival and on the buffering of sys.stdin: any number
\* `ready` of them, none included.
GetKeyReadPosix ==
    /\ probe.fn = "get_key"
    /\ probe.stage = "call"
    /\ probe.os_name = "posix"
    /\ probe.stdin # <<>>
    /\ \E ready \in 0 .. Len(probe.stdin) - 1 :
           LET first == Head(probe.stdin)
               waiting == SubSeq(probe.stdin, 2, 1 + ready)
               later == SubSeq(probe.stdin, 2 + ready, Len(probe.stdin))
               rest == IF first = "ESC" THEN read_escape(<<first>>, waiting)
                       ELSE <<(<<first>>), waiting>>
           IN  probe' = [probe EXCEPT
                            !.stage = "read", !.got = TRUE,
                            !.user_input = rest[1], !.stdin = rest[2] \o later]
    /\ UNCHANGED session_vars

\* nothing arrives within the timeout: user_input is None, None is returned
GetKeyTimeout ==
    /\ probe.fn = "get_key"
    /\ probe.stage = "call"
    /\ probe.stdin = <<>>
    /\ probe.timeout_finite
    /\ probe' = [probe EXCEPT !.stage = "returned", !.result = "None"]
    /\ UNCHANGED session_vars

\* bytes are decoded and lowered, or repr()ed when they do not decode; a str
\* is lowered
GetKeyNormalize ==
    /\ probe.fn = "get_key"
    /\ probe.stage = "read"
    /\ probe' = [probe EXCEPT
                    !.stage = "normalized",
                    !.is_repr = probe.os_name = "nt" /\ ~Utf8Decodes(probe.user_input),
                    !.processed_input =
                        IF probe.os_name = "nt" /\ ~Utf8Decodes(probe.user_input)
                        THEN probe.user_input
                        ELSE KeyLower(probe.user_input)]
    /\ UNCHANGED session_vars

\* search mode character, KEY_MAP entry, printable character, or None
GetKeyReturn ==
    /\ probe.fn = "get_key"
    /\ probe.stage = "normalized"
    /\ LET p == probe.processed_input
           one_printable == /\ ~probe.is_repr
                            /\ Len(p) = 1
                            /\ IsPrintable(p[1])
       IN  probe' = [probe EXCEPT
                        !.stage = "returned",
                        !.result =
                            IF probe.search_mode /\ one_printable THEN p[1]
                            ELSE IF KEY_MAP(probe.is_repr, p) # "absent"
                                 THEN KEY_MAP(probe.is_repr, p)
                            ELSE IF one_printable THEN p[1]
                            ELSE "None"]
    /\ UNCHANGED session_vars

NextGetKey ==
    \/ GetKeyReadNt
    \/ GetKeyReadPosix
    \/ GetKeyTimeout
    \/ GetKeyNormalize
    \/ GetKeyReturn

SpecGetKey == InitGetKey /\ [][NextGetKey]_vars

(***************************************************************************)
(* The five session states, read off the mode flags.                       *)
(***************************************************************************)
Running == ~paused /\ ~edit_mode /\ ~pattern_selection_mode /\ ~placement_mode
Paused == paused /\ ~edit_mode /\ ~pattern_selection_mode /\ ~placement_mode
Editing == paused /\ edit_mode /\ ~pattern_selection_mode /\ ~placement_mode
Browsing == paused /\ ~edit_mode /\ pattern_selection_mode /\ ~placement_mode
Placing == paused /\ ~edit_mode /\ ~pattern_selection_mode /\ placement_mode

\* a step that evaluates the dead condition (or skips it in a static mode)
EvaluationStep == pc = "eval" /\ verdict' # "interrupt"

\* a step that handles the key k
KeyStep(k) == pc = "await" /\ pc' = "eval" /\ processed_input' = k

\* the History a deque of stagnate_limit entries holds after x is appended
AppendedWindow(h, x) ==
    LET a == Append(h, x)
        n == Min(Len(a), stagnate_limit)
    IN  SubSeq(a, Len(a) - n + 1, Len(a))

(***************************************************************************)
(* C1 .. C8: the session.                                                  *)
(***************************************************************************)
\* C1: an evaluation declares the run Dead exactly when the session is Running
\* and (no cell is alive and keep-alive is off, or History is full and
\* is_cyclical(History)); never in Paused, Editing, Browsing or Placing.
C1_DeadVerdict ==
    [][EvaluationStep =>
          (verdict' = "dead" <=>
              /\ Running
              /\ \/ alive = 0 /\ ~keep_alive
                 \/ /\ stagnate_limit # 0
                    /\ Len(history) = stagnate_limit
                    /\ is_cyclical(history))]_vars

\* the session ended on a stagnation verdict with cells still alive
C1_Witness ==
    /\ pc = "done"
    /\ verdict = "dead"
    /\ stagnated
    /\ alive > 0

\* C2: a stagnation verdict is issued only on a History of exactly N counts,
\* and only after N generations were advanced in a row in Running since the
\* session last entered Running or restarted.
C2_StagnationNeedsFullWindow ==
    [][(EvaluationStep /\ verdict' = "dead" /\ stagnated') =>
          /\ stagnate_limit # 0
          /\ Len(history) = stagnate_limit
          /\ fresh_advances >= stagnate_limit]_vars

\* stagnation declared later than generation N: the window was filled afresh
C2_Witness ==
    /\ pc = "done"
    /\ verdict = "dead"
    /\ stagnated
    /\ Len(history) = stagnate_limit
    /\ generation > stagnate_limit

\* C3: History never holds more than N counts and is empty whenever the
\* session is not Running.
C3_HistoryBounded ==
    /\ Len(history) <= stagnate_limit
    /\ ~Running => history = <<>>

\* just paused after some generations: History is empty again
C3_Witness ==
    /\ Paused
    /\ processed_input = "p"
    /\ generation >= 2
    /\ history = <<>>

\* C4: at most one of the editing, browsing and placing flags is set, and
\* whenever one is set the paused flag is set too.
C4_OneModeActive ==
    /\ Cardinality({f \in {"e", "s", "p"} :
           \/ f = "e" /\ edit_mode
           \/ f = "s" /\ pattern_selection_mode
           \/ f = "p" /\ placement_mode}) <= 1
    /\ (edit_mode \/ pattern_selection_mode \/ placement_mode) => paused

\* C5: a Restart command gives a fresh create_board board, generation 0, the
\* abandoned generation folded into the running maximum, game number + 1,
\* an empty History, and leaves the session Running.
C5_RestartEffect ==
    [][(KeyStep("r") /\ ~placement_mode) =>
          /\ board' \in create_board(rows, cols, density)
          /\ generation' = 0
          /\ max_generation' = Max(max_generation, generation)
          /\ game_no' = game_no + 1
          /\ history' = <<>>
          /\ Running']_vars

\* C6: a Restart command in Editing, Browsing or Placing leaves board,
\* generation and game number as they are.
C6_RestartOnlyFromRunningOrPaused ==
    [][(KeyStep("r") /\ (Editing \/ Browsing \/ Placing)) =>
          /\ board' = board
          /\ generation' = generation
          /\ game_no' = game_no]_vars

\* C7: a Running evaluation that is not Dead appends the alive count to
\* History and goes on to wait; then the timeout and every key but Restart
\* and Pause advance the board by one generation.
C7_AppendThenAdvance ==
    [][/\ (EvaluationStep /\ Running /\ verdict' = "none") =>
              /\ pc' = "await"
              /\ stagnate_limit # 0 => history' = AppendedWindow(history, alive)
       /\ \A k \in ModeKeys \ {"r", "p"} :
              (KeyStep(k) /\ Running) =>
                  /\ board' = next_generation(board)
                  /\ generation' = generation + 1
                  /\ Running']_vars

\* an Edit key received while running has advanced the game
C7_Witness ==
    /\ pc = "eval"
    /\ Running
    /\ processed_input = "e"
    /\ generation >= 2
    /\ Len(history) >= 2

\* C8: Pause toggles Running and Paused; Edit toggles Paused and Editing; an
\* Edit key in Running never enters Editing.
C8_PauseAndEditToggle ==
    [][/\ (KeyStep("p") /\ Running) => Paused'
       /\ (KeyStep("p") /\ Paused) => Running'
       /\ (KeyStep("e") /\ Paused) => Editing'
       /\ (KeyStep("e") /\ Editing) => Paused'
       /\ (KeyStep("e") /\ Running) => Running']_vars

\* Edit has just taken the session back from Editing to Paused
C8_Witness ==
    /\ Paused
    /\ processed_input = "e"
    /\ pc = "eval"

(***************************************************************************)
(* C9, C10: the pure functions.                                            *)
(***************************************************************************)
\* the eight Moore offsets, as a set
MooreSet == ({-1, 0, 1} \X {-1, 0, 1}) \ {<<0, 0>>}

\* live neighbours of (r, c) on b: wrapped modulo the sides on a torus,
\* out-of-range offsets left out otherwise
NeighbourCount(b, torus, r, c) ==
    Cardinality({d \in MooreSet :
        LET nr == r + d[1]
            nc == c + d[2]
        IN  IF torus THEN b[nr % NumRows(b)][nc % NumCols(b)]
            ELSE /\ nr \in DOMAIN b
                 /\ nc \in DOMAIN b[0]
                 /\ b[nr][nc]})

\* b2 is b one generation on
IsNextGeneration(b, torus, b2) ==
    /\ DOMAIN b2 = DOMAIN b
    /\ \A r \in DOMAIN b :
           /\ DOMAIN b2[r] = DOMAIN b[r]
           /\ \A c \in DOMAIN b[r] :
                  b2[r][c] <=> \/ b[r][c] /\ NeighbourCount(b, torus, r, c) \in {2, 3}
                               \/ ~b[r][c] /\ NeighbourCount(b, torus, r, c) = 3

\* C9: next_generation keeps the dimensions and applies the rule to every cell
\* with the neighbour count taken on the input board (wrapped on a torus,
\* out-of-range neighbours not counted otherwise); the copy in life_game.py
\* returns what core.next_generation(board, False) returns.
C9_NextGenerationRule ==
    probe.fn = "next_generation" =>
        /\ probe.stage \in {"core", "both"} =>
               IsNextGeneration(probe.board, probe.torus, probe.new_board)
        /\ probe.stage = "both" =>
               /\ IsNextGeneration(probe.board, FALSE, probe.new_board_lg)
               /\ ~probe.torus => probe.new_board_lg = probe.new_board

\* a torus board on which wrapping gives birth to a cell the flat board leaves dead
C9_Witness ==
    /\ probe.fn = "next_generation"
    /\ probe.stage = "both"
    /\ probe.torus
    /\ \E r \in DOMAIN probe.board : \E c \in DOMAIN probe.board[r] :
           /\ ~probe.board[r][c]
           /\ probe.new_board[r][c]
           /\ ~probe.new_board_lg[r][c]

\* seq repeats with some period k, 1 <= k <= n div 2, and has at least 4 entries
HasPeriod(seq) ==
    /\ Len(seq) >= 4
    /\ \E k \in 1 .. (Len(seq) \div 2) :
           \A i \in k .. Len(seq) - 1 : seq[i + 1] = seq[i - k + 1]

\* C10: is_cyclical(seq) is true exactly when len(seq) >= 4 and seq repeats
\* with a period k in 1..floor(n/2); false below length 4, true for [5,5,5,5],
\* [1,2,1,2], [1,2,3,1,2,3], false for [1,2,3,4].  Both copies.
C10_IsCyclicalPeriod ==
    (probe.fn = "is_cyclical" /\ probe.stage = "both") =>
        /\ probe.result <=> HasPeriod(probe.seq)
        /\ probe.result_lg <=> HasPeriod(probe.seq)
        /\ Len(probe.seq) < 4 => ~probe.result /\ ~probe.result_lg
        /\ probe.seq \in {<<5, 5, 5, 5>>, <<1, 2, 1, 2>>, <<1, 2, 3, 1, 2, 3>>} =>
               probe.result /\ probe.result_lg
        /\ probe.seq = <<1, 2, 3, 4>> => ~probe.result /\ ~probe.result_lg

\* the three-valued cycle has been judged, and judged cyclical
C10_Witness ==
    /\ probe.fn = "is_cyclical"
    /\ probe.stage = "both"
    /\ probe.seq = <<1, 2, 3, 1, 2, 3>>
    /\ probe.result /\ probe.result_lg

(***************************************************************************)
(* C11 .. C20: placement, statistics, interrupts, the pattern library.     *)
(***************************************************************************)
\* the selected library pattern, flipped first when the flip flag is set and
\* rotated afterwards
TransformedPattern ==
    LET pattern == PATTERN_LIBRARY(display_names[selected_pattern_index + 1])
    IN  rotate_pattern(IF pattern_flip THEN flip_pattern(pattern) ELSE pattern,
                       pattern_rotation)

\* the cells cursor + offset of the transformed pattern that lie on the grid
Footprint ==
    {yx \in (0 .. rows - 1) \X (0 .. cols - 1) :
        \E i \in 1 .. Len(TransformedPattern) :
            /\ yx[1] = cursor_y + TransformedPattern[i][1]
            /\ yx[2] = cursor_x + TransformedPattern[i][2]}

\* some offset of the transformed pattern falls outside the grid
SomeOffsetOutside ==
    \E i \in 1 .. Len(TransformedPattern) :
        \/ cursor_y + TransformedPattern[i][1] \notin 0 .. rows - 1
        \/ cursor_x + TransformedPattern[i][2] \notin 0 .. cols - 1

\* C11: Select in Placing sets alive exactly the in-bounds cells cursor + offset
\* of the transformed pattern (flip first, then rotation); offsets outside the
\* grid are skipped and every cell alive before is alive afterwards.
C11_PlacementStamp ==
    [][(KeyStep(" ") /\ placement_mode /\ ~pattern_selection_mode) =>
          /\ selected_pattern_index \in 0 .. Len(display_names) - 1
          /\ board' = [r \in 0 .. rows - 1 |->
                          [c \in 0 .. cols - 1 |->
                              board[r][c] \/ <<r, c>> \in Footprint]]]_vars

\* a flipped and rotated pattern has just been placed away from the corner:
\* part of it fell off the grid, and cells placed earlier are still alive
C11_Witness ==
    /\ placement_mode
    /\ pc = "eval"
    /\ processed_input = " "
    /\ pattern_flip
    /\ pattern_rotation = 90
    /\ cursor_y > 0 /\ cursor_x > 0
    /\ SomeOffsetOutside
    /\ \A yx \in Footprint : board[yx[1]][yx[2]]
    /\ alive > Cardinality(Footprint)

\* a step on which the dead-condition check declares the game Dead
DeadStep == pc = "eval" /\ verdict' = "dead"

\* History is full and cyclical: stagnation is detected
StagnationDetected ==
    /\ stagnate_limit # 0
    /\ Len(history) = stagnate_limit
    /\ is_cyclical(history)

\* C12: on a Dead verdict the running maximum becomes max(previous maximum,
\* effectiveGeneration), where effectiveGeneration is generation - N when
\* stagnation was detected and generation otherwise.
C12_EffectiveGenerationFolded ==
    [][DeadStep =>
          /\ stagnated' = StagnationDetected
          /\ max_generation' =
                 Max(max_generation,
                     IF StagnationDetected THEN generation - stagnate_limit
                     ELSE generation)]_vars

\* stagnation ended the first game one generation after the window filled:
\* the maximum is the generation less the window
C12_Witness ==
    /\ pc = "done"
    /\ verdict = "dead"
    /\ stagnated
    /\ generation > stagnate_limit
    /\ max_generation = generation - stagnate_limit

\* a restart: 'r' outside placement, or a Dead verdict in endless mode
RestartStep ==
    \/ KeyStep("r") /\ ~placement_mode
    \/ DeadStep /\ endless

\* C13: the running maximum never decreases; the game number never decreases
\* and grows by exactly one on each restart (manual or endless) and at no
\* other time.
C13_StatisticsMonotone ==
    [][/\ max_generation' >= max_generation
       /\ game_no' \in {game_no, game_no + 1}
       /\ game_no' = game_no + 1 <=> RestartStep]_vars

\* interrupted in a later game that is younger than an earlier one was
C13_Witness ==
    /\ pc = "done"
    /\ verdict = "interrupt"
    /\ game_no > 1
    /\ max_generation > generation

\* C14: on a Dead verdict the session ends (final statistics) when endless
\* mode is off; in endless mode it does not end but goes on Running with a
\* fresh board, generation 0, game number + 1 and an empty History.
C14_DeadEndsOrRestarts ==
    [][DeadStep =>
          IF endless
          THEN /\ pc' # "done"
               /\ board' \in create_board(rows, cols, density)
               /\ generation' = 0
               /\ game_no' = game_no + 1
               /\ history' = <<>>
               /\ Running'
          ELSE /\ pc' = "done"
               /\ game_no' = game_no
               /\ generation' = generation]_vars

\* an endless session has just restarted after a stagnation verdict
C14_Witness ==
    /\ endless
    /\ pc = "eval"
    /\ verdict = "dead"
    /\ stagnated
    /\ game_no > 1
    /\ generation = 0
    /\ history = <<>>
    /\ Running

\* C15: an interrupt, at any wait or render and in any mode, folds the current
\* generation into the running maximum and ends the session with the final
\* statistics.
C15_InterruptFolds ==
    /\ [](pc \in {"eval", "await"} => ENABLED Interrupt)
    /\ [][(verdict # "interrupt" /\ verdict' = "interrupt") =>
              /\ max_generation' = Max(max_generation, generation)
              /\ game_no' = game_no
              /\ generation' = generation
              /\ pc' = "done"]_vars

\* interrupted while placing a pattern, in the oldest game so far
C15_Witness ==
    /\ pc = "done"
    /\ verdict = "interrupt"
    /\ placement_mode
    /\ generation > 0
    /\ max_generation = generation

\* C16: every time PatternMenu takes the session from Paused into Browsing,
\* Browsing starts with searching false, an empty query, selectedIndex 0 and
\* scrollOffset 0.
C16_BrowsingStartsReset ==
    [][(KeyStep("l") /\ Paused /\ Browsing') =>
          /\ ~search_mode'
          /\ search_query' = <<>>
          /\ selected_pattern_index' = 0
          /\ pattern_scroll_offset' = 0]_vars

\* C17: in Browsing, not search-typing, Select with a non-empty filtered list
\* enters Placing with rotation 0, not flipped, and the pattern named
\* filteredNames[selectedIndex]; with an empty filtered list it changes neither
\* the mode nor the board nor anything else.
C17_SelectEntersPlacing ==
    [][(KeyStep(" ") /\ Browsing /\ ~search_mode) =>
          IF display_names # <<>>
          THEN /\ Placing'
               /\ pattern_rotation' = 0
               /\ ~pattern_flip'
               /\ selected_pattern_index \in 0 .. Len(display_names) - 1
               /\ display_pattern' =
                      PATTERN_LIBRARY(display_names[selected_pattern_index + 1])
               /\ board' = board
          ELSE /\ UNCHANGED <<mode_vars, ui_vars>>
               /\ board' = board]_vars

\* the second name of the list has just been selected for placement
C17_Witness ==
    /\ Placing
    /\ pc = "eval"
    /\ processed_input = " "
    /\ selected_pattern_index = 1
    /\ pattern_rotation = 0
    /\ ~pattern_flip
    /\ display_pattern = PATTERN_LIBRARY(pattern_names[2])

\* C18: in Browsing selectedIndex is never negative and, when the filtered
\* list is non-empty, is the index of one of its names.
C18_SelectedIndexClamped ==
    Browsing =>
        /\ selected_pattern_index >= 0
        /\ display_names # <<>> =>
               selected_pattern_index <= Len(display_names) - 1

\* C19: in Browsing, after every up/down move,
\* scrollOffset <= selectedIndex < scrollOffset + (rows - headerHeight -
\* instructionHeight).
C19_SelectionInViewport ==
    [][((KeyStep("UP") \/ KeyStep("DOWN")) /\ Browsing /\ ~search_mode) =>
          /\ pattern_scroll_offset' <= selected_pattern_index'
          /\ selected_pattern_index' < pattern_scroll_offset' + max_items]_vars

\* the library names that contain q as a substring, letter case ignored
NamesMatching(q) ==
    {i \in 1 .. Len(pattern_names) :
        \E at \in 0 .. Len(pattern_names[i]) - Len(q) :
            \A j \in 1 .. Len(q) :
                LowerChar(pattern_names[i][at + j]) = LowerChar(q[j])}

\* C20: in Browsing with searching true, every printable character received
\* is appended to the query and not acted on as a command; Enter leaves
\* search-typing and keeps the query; Cancel leaves it and empties the query;
\* the filtered list is the library names containing the query, letter case
\* ignored; every change of the query resets selectedIndex and scrollOffset.
C20_SearchTyping ==
    [][(pc = "await" /\ pc' = "eval" /\ Browsing /\ search_mode) =>
          /\ processed_input' \in PrintableKeys =>
                 /\ search_query' = Append(search_query, processed_input')
                 /\ Browsing'
                 /\ search_mode'
                 /\ game_no' = game_no
          /\ processed_input' = "ENTER" =>
                 ~search_mode' /\ search_query' = search_query
          /\ processed_input' = "ESC" =>
                 ~search_mode' /\ search_query' = <<>>
          /\ search_query' # search_query =>
                 selected_pattern_index' = 0 /\ pattern_scroll_offset' = 0
          /\ display_names' =
                 [i \in 1 .. Cardinality(NamesMatching(search_query')) |->
                     pattern_names[CHOOSE n \in NamesMatching(search_query') :
                         Cardinality({m \in NamesMatching(search_query') : m < n})
                             = i - 1]]]_vars

(***************************************************************************)
(* C21 .. C24: placement and editing.                                      *)
(***************************************************************************)
ArrowKeys == {"UP", "DOWN", "LEFT", "RIGHT"}

\* C21: in Placing, Cancel and PatternMenu return to Paused with the board as
\* it was; cursor moves, Rotate and Flip leave the board as it was, and so
\* does rendering the preview.
C21_PlacingPreviewOnly ==
    [][/\ ((KeyStep("l") \/ KeyStep("ESC")) /\ Placing) =>
              Paused' /\ board' = board
       /\ \A k \in ArrowKeys \union {"r", "f"} :
              (KeyStep(k) /\ Placing) => Placing' /\ board' = board
       /\ (EvaluationStep /\ Placing) => board' = board]_vars

\* a rotated preview over a board with live cells has just been cancelled
C21_Witness ==
    /\ Paused
    /\ pc = "eval"
    /\ processed_input = "ESC"
    /\ pattern_rotation # 0
    /\ alive > 0
    /\ alive < rows * cols

\* C22: rotation is always one of 0, 90, 180, 270; in Placing Rotate makes it
\* (rotation + 90) mod 360 and Flip inverts flipped, and neither changes the
\* selected pattern name or the cursor.
C22_RotateAndFlip ==
    /\ [](pattern_rotation \in {0, 90, 180, 270})
    /\ [][((KeyStep("r") /\ placement_mode) =>
              (/\ pattern_rotation' = (pattern_rotation + 90) % 360
               /\ pattern_flip' = pattern_flip
               /\ UNCHANGED <<cursor_y, cursor_x, selected_pattern_index,
                              search_query>>))
           /\ ((KeyStep("f") /\ placement_mode) =>
              (/\ pattern_flip' = ~pattern_flip
               /\ pattern_rotation' = pattern_rotation
               /\ UNCHANGED <<cursor_y, cursor_x, selected_pattern_index,
                              search_query>>))]_vars

\* a fourth Rotate has brought a flipped pattern back to rotation 0
C22_Witness ==
    /\ Placing
    /\ pc = "eval"
    /\ processed_input = "r"
    /\ pattern_rotation = 0
    /\ pattern_flip
    /\ cursor_x > 0

\* the board with the cell under the cursor inverted and no other
CursorCellInverted ==
    [y \in 0 .. rows - 1 |->
        [x \in 0 .. cols - 1 |->
            IF y = cursor_y /\ x = cursor_x THEN ~board[y][x] ELSE board[y][x]]]

C24_CursorInGrid ==
    /\ 0 <= cursor_y /\ cursor_y < rows
    /\ 0 <= cursor_x /\ cursor_x < cols

\* Right was pressed in Editing with the cursor in the last column and row
C24_Witness ==
    /\ Editing
    /\ pc = "eval"
    /\ processed_input = "RIGHT"
    /\ cursor_y = rows - 1
    /\ cursor_x = cols - 1

(***************************************************************************)
(* C25 .. C27: pattern geometry.                                           *)
(***************************************************************************)
\* top-left anchored: the smallest row and the smallest column are 0
Normalized(p) ==
    p # <<>> => (SeqMin(p, 1, 1) = 0 /\ SeqMin(p, 2, 1) = 0)

\* C25: for every normalized pattern four successive 90-degree rotations
\* return exactly the pattern (same offsets, same order), and every rotation
\* by 90, 180 or 270 of a non-empty pattern has minimum row and column 0.
C25_FourQuarterTurns ==
    (probe.fn = "geometry" /\ probe.op = "rotate") =>
        /\ (probe.times = 4 /\ Normalized(probe.pattern)) =>
               probe.result = probe.pattern
        /\ (probe.angle \in {90, 180, 270} /\ probe.arg # <<>>) =>
               /\ Len(probe.result) = Len(probe.arg)
               /\ \E i \in 1 .. Len(probe.result) : probe.result[i][1] = 0
               /\ \E i \in 1 .. Len(probe.result) : probe.result[i][2] = 0
               /\ \A i \in 1 .. Len(probe.result) :
                      probe.result[i][1] >= 0 /\ probe.result[i][2] >= 0

C25_Witness ==
    /\ probe.fn = "geometry"
    /\ probe.copy = "utils"
    /\ probe.op = "rotate"
    /\ probe.times = 4
    /\ Len(probe.pattern) = 3
    /\ Normalized(probe.pattern)
    /\ probe.arg # probe.pattern
    /\ probe.result = probe.pattern

\* C26 as stated: flipping twice returns the pattern, for any list of offsets
C26_FlipInvolutionAnyOffsets ==
    (probe.fn = "geometry" /\ probe.op = "flip") =>
        /\ probe.times = 2 => probe.result = probe.pattern
        /\ probe.arg = <<>> => probe.result = <<>>

\* C26 (amended): flip(flip(p)) = p for every pattern whose minimum column is
\* 0, as it is for every normalized pattern; flip of the empty pattern is
\* the empty pattern.
C26_FlipInvolution ==
    (probe.fn = "geometry" /\ probe.op = "flip") =>
        /\ (/\ probe.times = 2
            /\ probe.pattern # <<>>
            /\ SeqMin(probe.pattern, 2, 1) = 0) => probe.result = probe.pattern
        /\ probe.arg = <<>> => probe.result = <<>>

C26_Witness ==
    /\ probe.fn = "geometry"
    /\ probe.copy = "utils"
    /\ probe.op = "flip"
    /\ probe.times = 2
    /\ Len(probe.pattern) = 3
    /\ SeqMin(probe.pattern, 2, 1) = 0
    /\ probe.arg # probe.pattern
    /\ probe.result = probe.pattern

\* the cells alive on b
AliveCells(b) == {yx \in (DOMAIN b) \X (DOMAIN b[0]) : b[yx[1]][yx[2]]}

\* the offsets of the alive cells of b from their bounding box's corner
AnchoredCells(b) ==
    LET live == AliveCells(b)
        minRow == CHOOSE r \in {yx[1] : yx \in live} :
                      \A yx \in live : r <= yx[1]
        minCol == CHOOSE c \in {yx[2] : yx \in live} :
                      \A yx \in live : c <= yx[2]
    IN  {<<yx[1] - minRow, yx[2] - minCol>> : yx \in live}

\* C27: extract_pattern_from_board returns one offset per alive cell,
\* (r - minRow, c - minCol), so the result is anchored at (0,0) and is the
\* same for a translation of the shape; it is empty when no cell is alive.
C27_ExtractAnchored ==
    (probe.fn = "extract" /\ probe.stage = "done") =>
        /\ Len(probe.pattern) = Cardinality(AliveCells(probe.board))
        /\ AliveCells(probe.board) = {} => probe.pattern = <<>>
        /\ AliveCells(probe.board) # {} =>
               /\ {probe.pattern[i] : i \in 1 .. Len(probe.pattern)}
                      = AnchoredCells(probe.board)
               /\ \E i \in 1 .. Len(probe.pattern) : probe.pattern[i][1] = 0
               /\ \E i \in 1 .. Len(probe.pattern) : probe.pattern[i][2] = 0
        /\ probe.pattern_moved = probe.pattern

C27_Witness ==
    /\ probe.fn = "extract"
    /\ probe.stage = "done"
    /\ Len(probe.pattern) >= 3
    /\ probe.moved # probe.board
    /\ \A x \in DOMAIN probe.moved[0] : ~probe.moved[0][x]
    /\ \A y \in DOMAIN probe.moved : ~probe.moved[y][0]
    /\ probe.pattern_moved = probe.pattern

(***************************************************************************)
(* C28, C29: the update rule on sparse boards and on a glider.             *)
(***************************************************************************)
AllDead(b) == \A r \in DOMAIN b : \A c \in DOMAIN b[0] : ~b[r][c]

\* C28 as stated: on every board size, torus or not, a board with at most
\* one live cell is all-dead after one step
C28_LonelyCellDiesAnyBoard ==
    (probe.fn = "next_generation" /\ probe.stage # "arg") =>
        (LiveCount(probe.board) <= 1 => AllDead(probe.new_board))

\* C28 (amended): an all-dead board stays all-dead on every board size in
\* both modes; a board with a single live cell is all-dead after one step in
\* non-torus mode on every board size, and in torus mode on every board with
\* at least two rows and two columns.
C28_LonelyCellDies ==
    (probe.fn = "next_generation" /\ probe.stage # "arg") =>
        /\ LiveCount(probe.board) = 0 => AllDead(probe.new_board)
        /\ (/\ LiveCount(probe.board) = 1
            /\ \/ ~probe.torus
               \/ NumRows(probe.board) >= 2 /\ NumCols(probe.board) >= 2) =>
               AllDead(probe.new_board)

C28_Witness ==
    /\ probe.fn = "next_generation"
    /\ probe.stage = "core"
    /\ probe.torus
    /\ NumRows(probe.board) >= 2
    /\ NumCols(probe.board) = 2
    /\ LiveCount(probe.board) = 1
    /\ AllDead(probe.new_board)

\* the board moved k rows down and k columns right, wrapping at the edges
Wrapped(b, k) ==
    [y \in DOMAIN b |->
        [x \in DOMAIN b[0] |-> b[(y - k) % NumRows(b)][(x - k) % NumCols(b)]]]

\* C29: in torus mode the glider keeps 5 live cells in every generation and
\* after every 4 generations is its starting shape moved one row and one
\* column further, wrapped modulo the board size (so it reappears at the left
\* edge after crossing the right one); in non-torus mode the glider has lost
\* cells by the time it would have crossed the board: the count has not
\* stayed 5.
C29_GliderWraps ==
    probe.fn = "glider" =>
        /\ probe.torus =>
               /\ LiveCount(probe.board) = 5
               /\ probe.generation % 4 = 0 =>
                      probe.board = Wrapped(probe.start, probe.generation \div 4)
        /\ (/\ ~probe.torus
            /\ probe.generation = 4 * NumCols(probe.board) * MaxLaps) =>
               /\ LiveCount(probe.board) # 5
               /\ \E i \in 1 .. Len(probe.counts) : probe.counts[i] < 5

C29_Witness ==
    /\ probe.fn = "glider"
    /\ probe.torus
    /\ probe.generation > 0
    /\ probe.generation % 4 = 0
    /\ LiveCount(probe.board) = 5
    /\ \E y \in DOMAIN probe.board : probe.board[y][NumCols(probe.board) - 1]
    /\ \E y \in DOMAIN probe.board : probe.board[y][0]
    /\ \A y \in DOMAIN probe.start : ~probe.start[y][0]

(***************************************************************************)
(* C30: the torus key.                                                     *)
(***************************************************************************)
\* C30: a Toggle-torus command ('t') received in Running or Paused flips the
\* torus flag that later updates use and empties History.  run() keeps no
\* torus flag and always updates with the bounded rule, so what is left to
\* state is the History part: after 't' in Running or Paused History is empty.
C30_ToggleTorusClearsHistory ==
    [][(KeyStep("t") /\ (Running \/ Paused)) => history' = <<>>]_vars

(***************************************************************************)
(* C31 .. C33: History against the generation counter, the stagnation      *)
(* verdict on a constant count, the step command.                          *)
(***************************************************************************)
\* C31 as stated: in every reachable state generation >= len(History)
C31_GenerationCoversHistory == generation >= Len(history)

\* C31 (amended): whenever the dead condition is evaluated generation >=
\* len(History), and in every reachable state generation + 1 >= len(History)
\* (the count of the current generation is appended before the wait); hence
\* whenever a stagnation verdict is issued (History full with N entries) the
\* effective generation generation - N is never negative.
C31_GenerationCoversHistoryAtEvaluation ==
    /\ [](pc = "eval" => generation >= Len(history))
    /\ [](generation + 1 >= Len(history))
    /\ [][(DeadStep /\ stagnated') =>
              /\ Len(history) = stagnate_limit
              /\ generation - stagnate_limit >= 0]_vars

\* stagnation declared as early as it can be: the effective generation is 0
C31_Witness ==
    /\ pc = "done"
    /\ verdict = "dead"
    /\ stagnated
    /\ alive > 0
    /\ Len(history) = stagnate_limit
    /\ generation = stagnate_limit
    /\ max_generation = 0

\* the alive count is not zero and has been the same since History was empty
ConstantCount ==
    /\ alive > 0
    /\ \A i \in 1 .. Len(history) : history[i] = alive

\* C32: with a stagnation window N, a Running session that started at
\* generation g with empty History on a board whose alive count stays constant
\* and non-zero is declared Dead by stagnation at the evaluation of generation
\* g + N, N ticks later and at no earlier evaluation, and the effective
\* generation folded into the maximum is generation - N = g.
C32_StagnationAfterNTicks ==
    [][(EvaluationStep /\ Running /\ stagnate_limit # 0 /\ ConstantCount) =>
          /\ Len(history) = fresh_advances
          /\ verdict' = "dead" <=> fresh_advances = stagnate_limit
          /\ verdict' = "dead" =>
                 /\ stagnated'
                 /\ generation - stagnate_limit >= 0
                 /\ max_generation' =
                        Max(max_generation, generation - stagnate_limit)]_vars

\* the session was resumed at generation 1 on a full board and stagnation was
\* declared at generation 1 + N, recording 1
C32_Witness ==
    /\ pc = "done"
    /\ verdict = "dead"
    /\ stagnated
    /\ game_no = 1
    /\ ConstantCount
    /\ fresh_advances = stagnate_limit
    /\ generation = 1 + stagnate_limit
    /\ max_generation = 1

\* C33: in Paused 'n' advances the board by exactly one generation and adds
\* one to generation while the session stays Paused and History stays empty;
\* every other key that is not Pause, Edit, PatternMenu or Restart leaves
\* board, generation and mode unchanged.
C33_StepInPaused ==
    [][/\ (KeyStep("n") /\ Paused) =>
              (/\ board' = next_generation(board)
               /\ generation' = generation + 1
               /\ Paused'
               /\ history' = <<>>)
       /\ \A k \in ModeKeys \ {"n", "p", "e", "l", "r"} :
              (KeyStep(k) /\ Paused) =>
                  (/\ board' = board
                   /\ generation' = generation
                   /\ Paused'
                   /\ history' = <<>>)
       /\ (EvaluationStep /\ Paused) =>
              (/\ Paused'
               /\ history' = <<>>
               /\ board' = board
               /\ generation' = generation)]_vars

\* a second step taken while paused, on a board with cells alive
C33_Witness ==
    /\ Paused
    /\ pc = "eval"
    /\ processed_input = "n"
    /\ generation >= 2
    /\ game_no = 1
    /\ history = <<>>
    /\ stagnate_limit # 0
    /\ alive > 0

(***************************************************************************)
(* C34: get_key.                                                           *)
(***************************************************************************)
\* C34: get_key turns each of the four arrow-key sequences of either
\* platform (ESC [ A/B/D/C on Unix, \xe0 H/P/K/M on Windows) into UP, DOWN,
\* LEFT or RIGHT, and returns None when the wait elapses with no input.
C34_ArrowKeysTranslated ==
    (probe.fn = "get_key" /\ probe.stage = "returned") =>
        /\ probe.typed = <<>> => probe.result = "None"
        /\ probe.os_name = "posix" =>
               /\ probe.typed = <<"ESC", "[", "A">> => probe.result = "Key.UP"
               /\ probe.typed = <<"ESC", "[", "B">> => probe.result = "Key.DOWN"
               /\ probe.typed = <<"ESC", "[", "D">> => probe.result = "Key.LEFT"
               /\ probe.typed = <<"ESC", "[", "C">> => probe.result = "Key.RIGHT"
        /\ probe.os_name = "nt" =>
               /\ probe.typed = <<"xe0", "H">> => probe.result = "Key.UP"
               /\ probe.typed = <<"xe0", "P">> => probe.result = "Key.DOWN"
               /\ probe.typed = <<"xe0", "K">> => probe.result = "Key.LEFT"
               /\ probe.typed = <<"xe0", "M">> => probe.result = "Key.RIGHT"

====
